---- MODULE Spec2Model ----
\* Model of the conductor audio back-end (src/conductor/src/manager/backend.rs)
\* and of the kira sound / parameter resources it grew into.
EXTENDS Integers, Sequences, FiniteSets, TLC

\* ------------------------------------------------------------------
\* Bounds of the exploration
\* ------------------------------------------------------------------
MaxPush == 2
MaxCycles == 3
RingCap == 2
EvCap == 1
NumInstances == 1
NumSequences == 1

\* ------------------------------------------------------------------
\* Identifiers of the project and of the commands
\* ------------------------------------------------------------------
LoadedSounds == {"s1"}
SoundIds == {"s1", "s2"}
InstIds == {"i1", "i2"}
MissingInst == "i3"
InstTargets == {"i1", MissingInst}
ProjectMetronomes == <<"m1", "m2">>
MetIds == {"m1", "m3"}
SeqIds == {"q1", "q2"}
Intervals == <<1, 2>>
SoundDuration == 1

InstCmds == {"PauseInstance", "ResumeInstance", "StopInstance"}
MetCmds == {"StartMetronome", "PauseMetronome", "StopMetronome"}

Cmd(k, id, arg) == [k |-> k, id |-> id, arg |-> arg, n |-> 0]
\* Wait(d): a wait of d ticks of dt
Wait(d) == Cmd("Wait", "", d)

\* Sequences the controller may ship with StartSequence
SeqDefs == [d1 |-> [met |-> "m1",
                    steps |-> << Cmd("PlaySound", "i2", "s1"), Wait(1),
                                 Cmd("StopInstance", "i2", ""),
                                 Cmd("StartMetronome", "m2", "") >>],
            d2 |-> [met |-> "m1",
                    steps |-> << Wait(1), Cmd("PlaySound", "i1", "s2") >>],
            d3 |-> [met |-> "m1",
                    steps |-> << Cmd("PlaySound", "i2", "s1"), Cmd("StopInstance", "i2", ""),
                                 Wait(3), Cmd("PauseInstance", "i2", "") >>]]

CmdChoices ==
  {Cmd("PlaySound", i, s) : i \in InstIds, s \in SoundIds}
  \cup {Cmd(k, i, "") : k \in InstCmds, i \in InstTargets}
  \cup {Cmd(k, m, "") : k \in MetCmds, m \in MetIds}
  \cup {Cmd("StartSequence", q, d) : q \in SeqIds, d \in DOMAIN SeqDefs}

\* ------------------------------------------------------------------
\* IndexMap<K, V> as a sequence of [key, val] in iteration order
\* ------------------------------------------------------------------
Keys(m) == {m[j].key : j \in 1..Len(m)}
Idx(m, k) == CHOOSE j \in 1..Len(m) : m[j].key = k
MapInsertDup(m, k, v) == Append(m, [key |-> k, val |-> v])
MapInsert(m, k, v) ==
  IF k \in Keys(m) THEN [m EXCEPT ![Idx(m, k)] = [key |-> k, val |-> v]]
  ELSE Append(m, [key |-> k, val |-> v])
MapSwapRemove(m, k) ==
  IF k \notin Keys(m) THEN m
  ELSE LET j == Idx(m, k)
           L == Len(m)
       IN IF j = L THEN SubSeq(m, 1, L - 1)
          ELSE [SubSeq(m, 1, L - 1) EXCEPT ![j] = m[L]]
RECURSIVE RemoveAll(_, _)
RemoveAll(m, ks) ==
  IF ks = <<>> THEN m ELSE RemoveAll(MapSwapRemove(m, Head(ks)), Tail(ks))

\* ------------------------------------------------------------------
\* Instance (crate::instance, not under src/: modelled from the spec 4.7)
\* ------------------------------------------------------------------
NewInstance(s) == [sound |-> s, state |-> "Playing", pos |-> 0, stoppedAt |-> 0]
InstApply(k, r) ==
  CASE k = "PauseInstance" ->
         IF r.state \in {"Playing", "Resuming"} THEN [r EXCEPT !.state = "Pausing"] ELSE r
    [] k = "ResumeInstance" ->
         IF r.state \in {"Paused", "Pausing"} THEN [r EXCEPT !.state = "Resuming"] ELSE r
    [] k = "StopInstance" ->
         IF r.state = "Stopped" THEN r ELSE [r EXCEPT !.state = "Stopping"]
InstFinished(r) == r.state = "Stopped"
InstUpdate(r, cyc) ==
  CASE r.state = "Pausing" -> [r EXCEPT !.state = "Paused"]
    [] r.state = "Resuming" -> [r EXCEPT !.state = "Playing"]
    [] r.state = "Stopping" -> [r EXCEPT !.state = "Stopped", !.stoppedAt = cyc]
    [] r.state = "Playing" ->
         IF r.pos + 1 > SoundDuration
         THEN [r EXCEPT !.state = "Stopping", !.pos = r.pos + 1]
         ELSE [r EXCEPT !.pos = r.pos + 1]
    [] OTHER -> r

\* ------------------------------------------------------------------
\* Metronome (crate::metronome, not under src/: modelled from the spec 4.8)
\* one beat per cycle
\* ------------------------------------------------------------------
NewMetronome == [ticking |-> FALSE, time |-> 0]
MetApply(k, r) ==
  CASE k = "StartMetronome" -> [r EXCEPT !.ticking = TRUE]
    [] k = "PauseMetronome" -> [r EXCEPT !.ticking = FALSE]
    [] k = "StopMetronome" -> [r EXCEPT !.ticking = FALSE, !.time = 0]
MetUpdate(r) ==
  IF ~r.ticking THEN [r |-> r, out |-> <<>>]
  ELSE LET t2 == r.time + 1
       IN [r |-> [r EXCEPT !.time = t2],
           out |-> SelectSeq(Intervals, LAMBDA iv : t2 \div iv > r.time \div iv)]

\* ------------------------------------------------------------------
\* Sequence (crate::sequence, not under src/: modelled from the spec 4.9)
\* timer is the wait_timer of the Wait step at the head, in ticks of dt;
\* 0 when that step has not been entered yet
\* ------------------------------------------------------------------
\* start: execute steps until suspension (a Wait)
RECURSIVE RunSteps(_, _)
RunSteps(st, out) ==
  IF st = <<>> \/ Head(st).k = "Wait" THEN [steps |-> st, timer |-> 0, out |-> out]
  ELSE RunSteps(Tail(st), Append(out, Head(st)))
SeqStart(sq) == RunSteps(sq.steps, <<>>)
\* update: a Wait(d) at the head initialises its timer to d when entered,
\* decrements it by dt and advances when it is <= 0; other steps are output
RECURSIVE UpdSteps(_, _, _)
UpdSteps(st, timer, out) ==
  IF st = <<>> THEN [steps |-> st, timer |-> 0, out |-> out]
  ELSE IF Head(st).k = "Wait"
       THEN LET t == (IF timer = 0 THEN Head(st).arg ELSE timer) - 1
            IN IF t <= 0 THEN UpdSteps(Tail(st), 0, out)
               ELSE [steps |-> st, timer |-> t, out |-> out]
       ELSE UpdSteps(Tail(st), 0, Append(out, Head(st)))
SeqUpdate(sq) == UpdSteps(sq.steps, sq.timer, <<>>)
SeqFinished(sq) == sq.steps = <<>>

\* ------------------------------------------------------------------
\* State
\* ------------------------------------------------------------------
VARIABLES ring, nextN, events, pc, cycle, instances, metronomes, sequences,
          seqQueue, collector, metIdx, idx, qlen,
          fillAtStart, popped, log, poppedLog, emittedLog, seqRun,
          attemptLog, crossedLog, dropped, lastRun, panicPhase, everInserted

vars == <<ring, nextN, events, pc, cycle, instances, metronomes, sequences,
          seqQueue, collector, metIdx, idx, qlen,
          fillAtStart, popped, log, poppedLog, emittedLog, seqRun,
          attemptLog, crossedLog, dropped, lastRun, panicPhase, everInserted>>

ctlVars == <<ring, nextN, events>>
cmdVars == <<instances, metronomes, sequences, seqQueue, emittedLog, everInserted>>

Init ==
  /\ ring = <<>>
  /\ nextN = 0
  /\ events = <<>>
  /\ pc = "idle"
  /\ cycle = 0
  /\ instances = <<>>
  /\ metronomes = [j \in 1..Len(ProjectMetronomes) |->
                     [key |-> ProjectMetronomes[j], val |-> NewMetronome]]
  /\ sequences = <<>>
  /\ seqQueue = <<>>
  /\ collector = <<>>
  /\ metIdx = 1
  /\ idx = 1
  /\ qlen = 0
  /\ fillAtStart = 0
  /\ popped = 0
  /\ log = <<>>
  /\ poppedLog = <<>>
  /\ emittedLog = <<>>
  /\ seqRun = <<>>
  /\ attemptLog = <<>>
  /\ crossedLog = <<>>
  /\ dropped = 0
  /\ lastRun = [c |-> Wait(1), missing |-> FALSE]
  /\ panicPhase = "none"
  /\ everInserted = {}

\* unwrap() sites of Backend::run_command
Panics(c) ==
  \/ c.k = "PlaySound" /\ c.arg \notin LoadedSounds
  \/ c.k \in MetCmds /\ c.id \notin Keys(metronomes)
  \/ c.k = "StartSequence" /\ SeqDefs[c.arg].met \notin Keys(metronomes)

RunInstCmdAnyInst(c) ==
  IF c.id \in Keys(instances)
  THEN instances' = [instances EXCEPT ![Idx(instances, c.id)].val = InstApply(c.k, @)]
  ELSE IF instances = <<>> THEN instances' = instances
       ELSE instances' = [instances EXCEPT ![1].val = InstApply(c.k, @)]
RunInstCmdOrInsert(c) ==
  IF c.id \in Keys(instances)
  THEN instances' = [instances EXCEPT ![Idx(instances, c.id)].val = InstApply(c.k, @)]
  ELSE instances' = MapInsert(instances, c.id, InstApply(c.k, NewInstance("s1")))
RunInstCmd(c) ==
  IF c.id \in Keys(instances)
  THEN instances' = [instances EXCEPT ![Idx(instances, c.id)].val = InstApply(c.k, @)]
  ELSE instances' = instances

\* Backend::run_command, for a command that does not reach an unwrap panic
RunCommand(c) ==
  CASE c.k = "PlaySound" ->
         /\ instances' = MapInsert(instances, c.id, NewInstance(c.arg))
         /\ everInserted' = everInserted \cup {c.id}
         /\ UNCHANGED <<metronomes, sequences, seqQueue, emittedLog>>
    [] c.k \in InstCmds ->
         /\ RunInstCmd(c)
         /\ UNCHANGED <<metronomes, sequences, seqQueue, emittedLog, everInserted>>
    [] c.k \in MetCmds ->
         /\ metronomes' = [metronomes EXCEPT ![Idx(metronomes, c.id)].val = MetApply(c.k, @)]
         /\ UNCHANGED <<instances, sequences, seqQueue, emittedLog, everInserted>>
    [] c.k = "StartSequence" ->
         LET sq == SeqDefs[c.arg]
             r == SeqStart(sq)
         IN /\ sequences' = MapInsert(sequences, c.id,
                                      [met |-> sq.met, steps |-> r.steps, timer |-> r.timer])
            /\ seqQueue' = seqQueue \o r.out
            /\ emittedLog' = emittedLog \o r.out
            /\ everInserted' = everInserted \cup {c.id}
            /\ UNCHANGED <<instances, metronomes>>

\* Runs command c from phase ph; on success the backend goes on in phase nxt
Execute(c, ph, nxt) ==
  IF Panics(c)
  THEN /\ pc' = "panic" /\ panicPhase' = ph
       /\ UNCHANGED <<cmdVars, log, lastRun>>
  ELSE /\ RunCommand(c)
       /\ pc' = nxt
       /\ log' = Append(log, c)
       /\ lastRun' = [c |-> c, missing |-> c.id \notin Keys(instances)]
       /\ UNCHANGED panicPhase

\* ------------------------------------------------------------------
\* Controller side
\* ------------------------------------------------------------------
\* The controller pushes whenever the ring has room, whatever the audio
\* thread is doing (also after it panicked: the producer does not see the
\* consumer's death).
Push ==
  /\ nextN < MaxPush
  /\ Len(ring) < RingCap
  /\ \E c \in CmdChoices : ring' = Append(ring, [c EXCEPT !.n = nextN + 1])
  /\ nextN' = nextN + 1
  /\ UNCHANGED <<events, pc, cycle, instances, metronomes, sequences,
                 seqQueue, collector, metIdx, idx, qlen,
                 fillAtStart, popped, log, poppedLog, emittedLog, seqRun,
                 attemptLog, crossedLog, dropped, lastRun, panicPhase, everInserted>>

PopEvent ==
  /\ events /= <<>>
  /\ events' = Tail(events)
  /\ UNCHANGED <<ring, nextN, pc, cycle, instances, metronomes, sequences,
                 seqQueue, collector, metIdx, idx, qlen,
                 fillAtStart, popped, log, poppedLog, emittedLog, seqRun,
                 attemptLog, crossedLog, dropped, lastRun, panicPhase, everInserted>>

\* ------------------------------------------------------------------
\* Audio side: Backend::process
\* ------------------------------------------------------------------
ProcessStart ==
  /\ pc = "idle"
  /\ cycle < MaxCycles
  /\ pc' = "drain"
  /\ cycle' = cycle + 1
  /\ fillAtStart' = Len(ring)
  /\ popped' = 0
  /\ log' = <<>>
  /\ poppedLog' = <<>>
  /\ emittedLog' = <<>>
  /\ seqRun' = <<>>
  /\ attemptLog' = <<>>
  /\ crossedLog' = <<>>
  /\ dropped' = 0
  /\ UNCHANGED <<ring, nextN, events, instances, metronomes, sequences,
                 seqQueue, collector, metIdx, idx, qlen, lastRun, panicPhase, everInserted>>

\* Backend::process_commands: one iteration of `while let Some(command) = pop()`
Drain ==
  /\ pc = "drain"
  /\ ring /= <<>>
  /\ ring' = Tail(ring)
  /\ popped' = popped + 1
  /\ poppedLog' = Append(poppedLog, Head(ring))
  /\ Execute(Head(ring), "drain", "drain")
  /\ UNCHANGED <<nextN, events, cycle, collector, metIdx, idx, qlen,
                 fillAtStart, seqRun, attemptLog, crossedLog, dropped>>

DrainDone ==
  /\ pc = "drain"
  /\ ring = <<>>
  /\ pc' = "metroUpd"
  /\ metIdx' = 1
  /\ UNCHANGED <<ring, nextN, events, cycle, instances, metronomes, sequences,
                 seqQueue, collector, idx, qlen,
                 fillAtStart, popped, log, poppedLog, emittedLog, seqRun,
                 attemptLog, crossedLog, dropped, lastRun, panicPhase, everInserted>>

\* Backend::update_metronomes: metronome.update for the metronome at metIdx
MetroUpd ==
  /\ pc = "metroUpd"
  /\ LET e == metronomes[metIdx]
         r == MetUpdate(e.val)
     IN /\ metronomes' = [metronomes EXCEPT ![metIdx].val = r.r]
        /\ collector' = r.out
        /\ crossedLog' = crossedLog \o [j \in 1..Len(r.out) |-> <<e.key, r.out[j]>>]
  /\ pc' = "metroPush"
  /\ UNCHANGED <<ring, nextN, events, cycle, instances, sequences,
                 seqQueue, metIdx, idx, qlen,
                 fillAtStart, popped, log, poppedLog, emittedLog, seqRun,
                 attemptLog, dropped, lastRun, panicPhase, everInserted>>

\* one iteration of `for interval in collector.drain(..)`: push, Err ignored
MetroPushStepBreak ==
  LET ev == <<metronomes[metIdx].key, Head(collector)>>
  IN /\ attemptLog' = Append(attemptLog, ev)
     /\ IF Len(events) < EvCap
        THEN events' = Append(events, ev) /\ dropped' = dropped /\ collector' = Tail(collector)
        ELSE events' = events /\ dropped' = dropped + 1 /\ collector' = <<>>
MetroPushStep ==
  LET ev == <<metronomes[metIdx].key, Head(collector)>>
  IN /\ attemptLog' = Append(attemptLog, ev)
     /\ collector' = Tail(collector)
     /\ IF Len(events) < EvCap
        THEN events' = Append(events, ev) /\ dropped' = dropped
        ELSE events' = events /\ dropped' = dropped + 1

MetroPush ==
  /\ pc = "metroPush"
  /\ collector /= <<>>
  /\ MetroPushStep
  /\ UNCHANGED <<ring, nextN, pc, cycle, instances, metronomes, sequences,
                 seqQueue, metIdx, idx, qlen,
                 fillAtStart, popped, log, poppedLog, emittedLog, seqRun,
                 crossedLog, lastRun, panicPhase, everInserted>>

\* end of the drain loop: next metronome of the IndexMap
MetroNext ==
  /\ pc = "metroPush"
  /\ collector = <<>>
  /\ metIdx' = metIdx + 1
  /\ pc' = IF metIdx < Len(metronomes) THEN "metroUpd" ELSE "seqUpd"
  /\ UNCHANGED <<ring, nextN, events, cycle, instances, metronomes, sequences,
                 seqQueue, collector, idx, qlen,
                 fillAtStart, popped, log, poppedLog, emittedLog, seqRun,
                 attemptLog, crossedLog, dropped, lastRun, panicPhase, everInserted>>

\* first loop of Backend::update_sequences: update every sequence in map
\* order, collect emitted commands and the ids of finished sequences
RECURSIVE UpdFrom(_, _, _)
UpdFrom(list, j, acc) ==
  IF j > Len(list) THEN acc
  ELSE LET u == SeqUpdate(list[j].val)
           ns == [list[j].val EXCEPT !.steps = u.steps, !.timer = u.timer]
       IN UpdFrom(list, j + 1,
                  [list |-> [acc.list EXCEPT ![j].val = ns],
                   out |-> acc.out \o u.out,
                   rem |-> IF SeqFinished(ns) THEN Append(acc.rem, list[j].key)
                           ELSE acc.rem])
UpdAll(list) == UpdFrom(list, 1, [list |-> list, out |-> <<>>, rem |-> <<>>])

\* Backend::update_sequences up to the command loop (sequences_to_remove drained)
SeqUpd ==
  /\ pc = "seqUpd"
  /\ LET r == UpdAll(sequences)
     IN /\ sequences' = RemoveAll(r.list, r.rem)
        /\ seqQueue' = seqQueue \o r.out
        /\ emittedLog' = emittedLog \o r.out
        /\ qlen' = Len(seqQueue) + Len(r.out)
  /\ idx' = 1
  /\ pc' = "seqCmd"
  /\ UNCHANGED <<ring, nextN, events, cycle, instances, metronomes,
                 collector, metIdx,
                 fillAtStart, popped, log, poppedLog, seqRun,
                 attemptLog, crossedLog, dropped, lastRun, panicPhase, everInserted>>

SeqCmdReversed ==
  /\ pc = "seqCmd"
  /\ idx <= qlen
  /\ idx' = idx + 1
  /\ Execute(seqQueue[qlen + 1 - idx], "seqCmd", "seqCmd")
  /\ seqRun' = IF Panics(seqQueue[qlen + 1 - idx]) THEN seqRun
               ELSE Append(seqRun, seqQueue[qlen + 1 - idx])
  /\ UNCHANGED <<ring, nextN, events, cycle, collector, metIdx, qlen,
                 fillAtStart, popped, poppedLog, attemptLog, crossedLog, dropped>>

\* one iteration of `for i in 0..sequence_command_queue.len()`
SeqCmd ==
  /\ pc = "seqCmd"
  /\ idx <= qlen
  /\ idx' = idx + 1
  /\ Execute(seqQueue[idx], "seqCmd", "seqCmd")
  /\ seqRun' = IF Panics(seqQueue[idx]) THEN seqRun ELSE Append(seqRun, seqQueue[idx])
  /\ UNCHANGED <<ring, nextN, events, cycle, collector, metIdx, qlen,
                 fillAtStart, popped, poppedLog, attemptLog, crossedLog, dropped>>

\* sequence_command_queue.clear()
SeqCmdDone ==
  /\ pc = "seqCmd"
  /\ idx > qlen
  /\ seqQueue' = <<>>
  /\ pc' = "mix"
  /\ UNCHANGED <<ring, nextN, events, cycle, instances, metronomes, sequences,
                 collector, metIdx, idx, qlen,
                 fillAtStart, popped, log, poppedLog, emittedLog, seqRun,
                 attemptLog, crossedLog, dropped, lastRun, panicPhase, everInserted>>

\* mixing loop of Backend::process: finished instances are queued for
\* removal before their update, then instances_to_remove is drained
RECURSIVE MixFrom(_, _, _)
MixFrom(list, j, acc) ==
  IF j > Len(list) THEN acc
  ELSE MixFrom(list, j + 1,
               [list |-> [acc.list EXCEPT ![j].val = InstUpdate(list[j].val, cycle)],
                rem |-> IF InstFinished(list[j].val) THEN Append(acc.rem, list[j].key)
                        ELSE acc.rem])
MixAll(list) == MixFrom(list, 1, [list |-> list, rem |-> <<>>])

Mix ==
  /\ pc = "mix"
  /\ LET r == MixAll(instances)
     IN instances' = RemoveAll(r.list, r.rem)
  /\ pc' = "idle"
  /\ UNCHANGED <<ring, nextN, events, cycle, metronomes, sequences,
                 seqQueue, collector, metIdx, idx, qlen,
                 fillAtStart, popped, log, poppedLog, emittedLog, seqRun,
                 attemptLog, crossedLog, dropped, lastRun, panicPhase, everInserted>>

Next ==
  \/ Push
  \/ PopEvent
  \/ ProcessStart
  \/ Drain
  \/ DrainDone
  \/ MetroUpd
  \/ MetroPush
  \/ MetroNext
  \/ SeqUpd
  \/ SeqCmd
  \/ SeqCmdDone
  \/ Mix


\* ------------------------------------------------------------------
\* Properties of the back-end
\* ------------------------------------------------------------------
IsPlay(c) == c.k = "PlaySound"

\* C1: within a cycle, ring commands run in submission order, then the
\* sequence-emitted commands in emission order, and only then does the
\* mixing loop run, with every instance created by these commands present.
C1_CycleOrder ==
  pc = "mix" =>
    /\ log = poppedLog \o emittedLog
    /\ \A j \in 1..(Len(poppedLog) - 1) : poppedLog[j + 1].n = poppedLog[j].n + 1
    /\ \A j \in 1..Len(log) : IsPlay(log[j]) => log[j].id \in Keys(instances)

C1_Witness ==
  pc = "mix" /\ Len(poppedLog) >= 2 /\ Len(emittedLog) >= 2
  /\ \E j \in 1..Len(log) : IsPlay(log[j])

\* C2: a PlaySound of an unloaded sound, or a metronome / StartSequence
\* command naming an absent metronome, is a no-op: the cycle never panics.
C2_NoPanic == pc /= "panic"

\* C3: an instance command whose InstanceId is not in the instances map
\* leaves the whole back-end state unchanged.
MissingInstCmd(c) == c.k \in InstCmds /\ c.id \notin Keys(instances)
RunsMissingInstCmd ==
  \/ pc = "drain" /\ ring /= <<>> /\ ring' = Tail(ring) /\ MissingInstCmd(Head(ring))
  \/ pc = "seqCmd" /\ idx <= qlen /\ idx' = idx + 1 /\ MissingInstCmd(seqQueue[idx])
C3_MissingInstanceNoop ==
  [][RunsMissingInstCmd =>
       /\ UNCHANGED <<instances, metronomes, sequences, seqQueue, events, emittedLog>>
       /\ pc' = pc]_vars

\* the missing instance was created earlier and has been reclaimed by the
\* mixing loop after it reached Stopped
C3_Witness ==
  lastRun.missing /\ lastRun.c.k \in InstCmds /\ lastRun.c.id \in everInserted

\* C4: update_metronomes attempts exactly one event push per crossed
\* interval, in order, a full event ring only drops the event, every
\* metronome is processed and the collector is empty after each one.
C4_MetronomeEvents ==
  /\ pc = "metroUpd" => collector = <<>>
  /\ pc \in {"seqUpd", "seqCmd", "mix"} => (attemptLog = crossedLog /\ collector = <<>>)

C4_Witness ==
  pc = "seqUpd" /\ dropped > 0 /\ Len(crossedLog) >= 2

\* C5: update_sequences removes every finished sequence, runs every queued
\* command exactly once in index order and leaves the queue empty.
C5_UpdateSequences ==
  (pc = "mix" \/ (pc = "panic" /\ panicPhase = "seqCmd")) =>
    /\ seqRun = emittedLog
    /\ \A j \in 1..Len(sequences) : ~SeqFinished(sequences[j].val)
    /\ pc = "mix" => seqQueue = <<>>

\* C9: process_commands pops at most the number of commands the ring held
\* when the drain started.
C9_DrainBounded == pc = "drain" => popped <= fillAtStart

ParamCap == 2
MaxGen == 2
UnusedCap == 1

\* ParameterId(Key): (slot index, generation)
ParamKeys == (1..ParamCap) \X (0..MaxGen)

\* Parameter (crate::parameter, not under src/: modelled from the spec 4.4)
NewParameter(v) == [val |-> v, target |-> v, marked |-> FALSE]
ParamSet(r, v) == [r EXCEPT !.val = v, !.target = v]
ParamTween(r, v) == [r EXCEPT !.target = v]
ParamUpdate(r) == [r EXCEPT !.val = r.target]

\* atomic_arena::Arena slots; "free" slots hold no item
FreeSlot == [gen |-> 0, st |-> "free", item |-> NewParameter(0)]

\* arenaOrder: the occupied slots in the arena's iteration order (most
\* recently inserted first)
VARIABLES slots, unused, pPanic, pLast, unusedPanic, arenaOrder,
          pPhase, pK, pOrd

pvars == <<slots, unused, pPanic, pLast, unusedPanic, arenaOrder, pPhase, pK, pOrd>>

\* Arena::get / get_mut: the item only when the generation matches
ArenaLive(key) == slots[key[1]].st = "occupied" /\ slots[key[1]].gen = key[2]
\* a key that is neither live nor the slot's current reservation
Dangling(key) ==
  ~(slots[key[1]].gen = key[2] /\ slots[key[1]].st \in {"occupied", "reserved"})
\* Arena::insert_with_index succeeds only for the key reserved by the controller
ArenaInsertOk(key) == slots[key[1]].st = "reserved" /\ slots[key[1]].gen = key[2]

ParamCmds ==
  [k : {"Add"}, key : ParamKeys, v : {0}]
  \cup [k : {"Set", "Tween"}, key : ParamKeys, v : {1}]

\* pLast: the parameter command run by the last step, NoCmd after any other step
NoCmd == [k |-> "none", dangling |-> FALSE, wrongGen |-> FALSE]

PInit ==
  /\ slots = [j \in 1..ParamCap |-> FreeSlot]
  /\ unused = <<>>
  /\ pPanic = FALSE
  /\ unusedPanic = FALSE
  /\ arenaOrder = <<>>
  /\ pPhase = "idle"
  /\ pK = 1
  /\ pOrd = <<>>
  /\ pLast = NoCmd

ParamRunCommandIgnoringGen(cmd) ==
  LET j == cmd.key[1]
  IN CASE cmd.k = "Add" ->
            IF ArenaInsertOk(cmd.key)
            THEN slots' = [slots EXCEPT ![j].st = "occupied", ![j].item = NewParameter(cmd.v)]
                 /\ pPanic' = FALSE
                 /\ arenaOrder' = <<j>> \o arenaOrder
            ELSE slots' = slots /\ pPanic' = TRUE /\ arenaOrder' = arenaOrder
       [] cmd.k = "Set" ->
            IF slots[j].st = "occupied"
            THEN slots' = [slots EXCEPT ![j].item = ParamSet(@, cmd.v)] /\ pPanic' = FALSE
                 /\ arenaOrder' = arenaOrder
            ELSE slots' = slots /\ pPanic' = FALSE /\ arenaOrder' = arenaOrder
       [] cmd.k = "Tween" ->
            IF slots[j].st = "occupied"
            THEN slots' = [slots EXCEPT ![j].item = ParamTween(@, cmd.v)] /\ pPanic' = FALSE
                 /\ arenaOrder' = arenaOrder
            ELSE slots' = slots /\ pPanic' = FALSE /\ arenaOrder' = arenaOrder

\* Parameters::run_command; a failed insert reaches .expect(...) and panics
ParamRunCommand(cmd) ==
  LET j == cmd.key[1]
  IN CASE cmd.k = "Add" ->
            IF ArenaInsertOk(cmd.key)
            THEN slots' = [slots EXCEPT ![j].st = "occupied", ![j].item = NewParameter(cmd.v)]
                 /\ pPanic' = FALSE
                 /\ arenaOrder' = <<j>> \o arenaOrder
            ELSE slots' = slots /\ pPanic' = TRUE /\ arenaOrder' = arenaOrder
       [] cmd.k = "Set" ->
            IF ArenaLive(cmd.key)
            THEN slots' = [slots EXCEPT ![j].item = ParamSet(@, cmd.v)] /\ pPanic' = FALSE
                 /\ arenaOrder' = arenaOrder
            ELSE slots' = slots /\ pPanic' = FALSE /\ arenaOrder' = arenaOrder
       [] cmd.k = "Tween" ->
            IF ArenaLive(cmd.key)
            THEN slots' = [slots EXCEPT ![j].item = ParamTween(@, cmd.v)] /\ pPanic' = FALSE
                 /\ arenaOrder' = arenaOrder
            ELSE slots' = slots /\ pPanic' = FALSE /\ arenaOrder' = arenaOrder

\* Controller::try_reserve on the controller side: a free slot, next
\* generation (explored up to generation MaxGen)
PReserve ==
  /\ \E j \in 1..ParamCap :
       /\ slots[j].st = "free"
       /\ slots[j].gen < MaxGen
       /\ slots' = [slots EXCEPT ![j].st = "reserved", ![j].gen = @ + 1]
  /\ pLast' = NoCmd
  /\ UNCHANGED <<unused, pPanic, unusedPanic, arenaOrder, pPhase, pK, pOrd>>

\* the controller drops its handle: the shared state is marked for removal
PMark ==
  /\ \E j \in 1..ParamCap :
       /\ slots[j].st = "occupied" /\ ~slots[j].item.marked
       /\ slots' = [slots EXCEPT ![j].item.marked = TRUE]
  /\ pLast' = NoCmd
  /\ UNCHANGED <<unused, pPanic, unusedPanic, arenaOrder, pPhase, pK, pOrd>>

\* Parameters::on_start_processing: remove_unused_parameters returns at
\* once when the unused ring is full; otherwise its drain_filter loop starts
\* over the occupied slots in arena order (pOrd, position pK). The loop of
\* parameter.on_start_processing() that follows changes no modelled state.
POnStartProcessing ==
  /\ ~pPanic
  /\ pPhase = "idle"
  /\ IF Len(unused) >= UnusedCap
     THEN UNCHANGED <<pPhase, pK, pOrd>>
     ELSE pPhase' = "iter" /\ pK' = 1 /\ pOrd' = arenaOrder
  /\ pLast' = NoCmd
  /\ UNCHANGED <<slots, unused, pPanic, unusedPanic, arenaOrder>>

\* one item of the drain_filter loop (parameters.rs:36-42): a marked
\* parameter is taken out of the arena and pushed (panic on Err); ring
\* entries record only the key the parameter had (the parameter itself is
\* dropped by the controller and read by no property)
PRemoveIter ==
  /\ pPhase = "iter"
  /\ IF pK > Len(pOrd)
     THEN /\ pPhase' = "idle"
          /\ UNCHANGED <<slots, unused, pPanic, unusedPanic, arenaOrder, pK, pOrd>>
     ELSE LET j == pOrd[pK]
          IN IF slots[j].st = "occupied" /\ slots[j].item.marked
             THEN IF Len(unused) >= UnusedCap
                  THEN /\ pPanic' = TRUE /\ unusedPanic' = TRUE /\ pPhase' = "idle"
                       /\ UNCHANGED <<slots, unused, arenaOrder, pK, pOrd>>
                  ELSE /\ slots' = [slots EXCEPT ![j].st = "free", ![j].item = FreeSlot.item]
                       /\ unused' = Append(unused, [key |-> <<j, slots[j].gen>>])
                       /\ arenaOrder' = SelectSeq(arenaOrder, LAMBDA x : x /= j)
                       /\ pPhase' = "check"
                       /\ UNCHANGED <<pPanic, unusedPanic, pK, pOrd>>
             ELSE /\ pK' = pK + 1
                  /\ UNCHANGED <<slots, unused, pPanic, unusedPanic, arenaOrder, pPhase, pOrd>>
  /\ pLast' = NoCmd

\* `if self.unused_parameter_producer.is_full() { return; }` after a push
PRemoveCheck ==
  /\ pPhase = "check"
  /\ IF Len(unused) >= UnusedCap
     THEN pPhase' = "idle" /\ UNCHANGED pK
     ELSE pPhase' = "iter" /\ pK' = pK + 1
  /\ pLast' = NoCmd
  /\ UNCHANGED <<slots, unused, pPanic, unusedPanic, arenaOrder, pOrd>>

\* Parameters::update
PUpdate ==
  /\ ~pPanic
  /\ pPhase = "idle"
  /\ slots' = [j \in 1..ParamCap |->
                 IF slots[j].st = "occupied"
                 THEN [slots[j] EXCEPT !.item = ParamUpdate(@)]
                 ELSE slots[j]]
  /\ pLast' = NoCmd
  /\ UNCHANGED <<unused, pPanic, unusedPanic, arenaOrder, pPhase, pK, pOrd>>

\* the controller pops the unused ring and drops the parameter
PDrainUnused ==
  /\ unused /= <<>>
  /\ unused' = Tail(unused)
  /\ pLast' = NoCmd
  /\ UNCHANGED <<slots, pPanic, unusedPanic, arenaOrder, pPhase, pK, pOrd>>

\* Parameters::run_command on the commands the controller sends: Add only
\* with the key it has just reserved (spec 7: an ID is reserved before its
\* command is enqueued); Set and Tween may come from stale handles
PRunProtocolCommand ==
  /\ ~pPanic
  /\ pPhase = "idle"
  /\ \E cmd \in ParamCmds :
       /\ cmd.k = "Add" => ArenaInsertOk(cmd.key)
       /\ ParamRunCommand(cmd)
       /\ pLast' = [k |-> cmd.k,
                    dangling |-> Dangling(cmd.key),
                    wrongGen |-> Dangling(cmd.key) /\ slots[cmd.key[1]].st /= "free"]
  /\ UNCHANGED <<unused, unusedPanic, pPhase, pK, pOrd>>

PProtocolNext == PRunProtocolCommand \/ PReserve \/ PMark \/ POnStartProcessing
                 \/ PRemoveIter \/ PRemoveCheck \/ PUpdate \/ PDrainUnused

\* ==================================================================
\* Sound::get_frame_at_position (src/kira/src/sound/mod.rs) and
\* StaticSound::frame_at_position (src/kira/src/sound/static_sound.rs)
\* A position is t = FPos / PosDen seconds, so sample_position is
\* SampleRate * FPos / PosDen. Frame values are kept exact by scaling:
\* a frame result r is represented by 2 * PosDen^3 * r.
\* ==================================================================
PosDen == 2
MaxSamples == 2
MaxPosNum == 3
FrameSampleRates == {1, 2}
SampleVals == {0, 1}

Zero == [l |-> 0, r |-> 0]
FrameValues == [l : SampleVals, r : SampleVals]

\* `sample_position % 1.0` (sign of the dividend) scaled by PosDen
FracNum(sp) == IF sp >= 0 THEN sp % PosDen ELSE -((-sp) % PosDen)
\* `sample_position as usize` (saturating cast: negatives become 0)
IndexOf(sp) == IF sp <= 0 THEN 0 ELSE sp \div PosDen

\* samples.get(i) with 0-based i, ZERO when out of range
SampleAt(smp, i) == IF i >= 0 /\ i < Len(smp) THEN smp[i + 1] ELSE Zero

\* the cubic of Sound::get_frame_at_position on one channel, scaled
CubicScaled(y0, y1, y2, y3, X) ==
  LET c0 == 2 * y1
      c1 == y2 - y0
      c2 == 2 * y0 - 5 * y1 + 4 * y2 - y3
      c3 == (y3 - y0) + 3 * (y1 - y2)
  IN ((c3 * X + c2 * PosDen) * X + c1 * PosDen * PosDen) * X
       + c0 * PosDen * PosDen * PosDen

CubicFrame(f0, f1, f2, f3, X) ==
  [l |-> CubicScaled(f0.l, f1.l, f2.l, f3.l, X),
   r |-> CubicScaled(f0.r, f1.r, f2.r, f3.r, X)]

GetFrameAtPosition(sr, smp, pnum) ==
  LET sp == sr * pnum
      x == FracNum(sp)
      i == IndexOf(sp)
      y0 == IF i = 0 THEN Zero ELSE SampleAt(smp, i - 1)
  IN CubicFrame(y0, SampleAt(smp, i), SampleAt(smp, i + 1), SampleAt(smp, i + 2), x)

\* util::interpolate_frame (not under src/: the kernel of the spec 4.1)
InterpolateFrame(previous, current, next1, next2, X) ==
  CubicFrame(previous, current, next1, next2, X)

FrameAtPosition(sr, smp, pnum) ==
  LET sp == sr * pnum
      fraction == FracNum(sp)
      i == IndexOf(sp)
      previous == IF i = 0 THEN Zero ELSE SampleAt(smp, i - 1)
  IN InterpolateFrame(previous, SampleAt(smp, i), SampleAt(smp, i + 1),
                      SampleAt(smp, i + 2), fraction)

VARIABLES fSr, fSamples, fPos, fOut, fStaticOut, fDone

fvars == <<fSr, fSamples, fPos, fOut, fStaticOut, fDone>>

FInit ==
  /\ fSr \in FrameSampleRates
  /\ fSamples \in UNION {[1..n -> FrameValues] : n \in 0..MaxSamples}
  /\ fPos \in -MaxPosNum..MaxPosNum
  /\ fOut = Zero
  /\ fStaticOut = Zero
  /\ fDone = FALSE

\* one call of each lookup at position fPos / PosDen
FEval ==
  /\ ~fDone
  /\ fOut' = GetFrameAtPosition(fSr, fSamples, fPos)
  /\ fStaticOut' = FrameAtPosition(fSr, fSamples, fPos)
  /\ fDone' = TRUE
  /\ UNCHANGED <<fSr, fSamples, fPos>>

FNext == FEval

\* ==================================================================
\* StaticSound::process / finished (src/kira/src/sound/static_sound.rs)
\* times in units of 1 / TimeDen seconds
\* ==================================================================
TimeDen == 2
MaxStaticLen == 2
StaticSampleRates == {1, 2}
Dts == {1, 2}
MaxTime == MaxStaticLen * TimeDen + 2

VARIABLES ssRate, ssLen, ssDt, ssPos, ssState, driver

svars == <<ssRate, ssLen, ssDt, ssPos, ssState, driver>>

SInit ==
  /\ ssRate \in StaticSampleRates
  /\ ssLen \in 0..MaxStaticLen
  /\ ssDt \in Dts
  /\ ssPos = 0
  /\ ssState = "Playing"

\* position > duration().as_secs_f64(), i.e. ssPos/TimeDen > ssLen/ssRate
PastEnd(pos, len, rate) == pos * rate > len * TimeDen

SProcessNoAdvance ==
  /\ ssPos <= MaxTime
  /\ ssState' = IF PastEnd(ssPos, ssLen, ssRate) THEN "Stopped" ELSE ssState
  /\ ssPos' = ssPos
  /\ UNCHANGED <<ssRate, ssLen, ssDt, driver>>

SProcess ==
  /\ ssPos <= MaxTime
  /\ ssState' = IF PastEnd(ssPos, ssLen, ssRate) THEN "Stopped" ELSE ssState
  /\ ssPos' = ssPos + ssDt
  /\ UNCHANGED <<ssRate, ssLen, ssDt, driver>>

SFinished == ssState = "Stopped"

SNext == SProcess

\* ==================================================================
\* Specifications (each component leaves the other's state untouched)
\* ==================================================================
allVars == <<vars, pvars, fvars, svars>>

AllInit == Init /\ PInit /\ FInit /\ SInit

\* initial states of the back-end alone
BInit == Init /\ PInit /\ FInit /\ SInit /\ fSr = 1 /\ fSamples = <<>> /\ fPos = 0
                          /\ ssRate = 1 /\ ssLen = 0 /\ ssDt = 1 /\ driver = "backend"

Spec == BInit /\ [][Next /\ UNCHANGED <<pvars, fvars, svars>>]_allVars

ParamSpec == BInit /\ [][PProtocolNext /\ UNCHANGED <<vars, fvars, svars>>]_allVars

\* back-end and StaticSound side by side; the host keeps calling process()
BNext == Next /\ UNCHANGED <<pvars, fvars, svars>>
SStep == SNext /\ UNCHANGED <<vars, pvars, fvars>>

\* The StaticSound and the back-end share no state: a behaviour of
\* SoundSpec drives one of them (driver), the other stays in its initial
\* state, and every behaviour of each component is a behaviour of SoundSpec.
SoundInit ==
  /\ Init /\ PInit /\ FInit /\ fSr = 1 /\ fSamples = <<>> /\ fPos = 0
  /\ \/ driver = "backend" /\ SInit /\ ssRate = 1 /\ ssLen = 0 /\ ssDt = 1
     \/ driver = "sound" /\ SInit
SDriven == driver = "sound" /\ SStep

SoundSpec == SoundInit
             /\ [][(driver = "backend" /\ BNext) \/ SDriven]_allVars
             /\ WF_allVars(SDriven)

FrameInit == Init /\ PInit /\ FInit /\ SInit /\ ssRate = 1 /\ ssLen = 0 /\ ssDt = 1
             /\ driver = "backend"

FrameSpec == FrameInit
             /\ [][FNext /\ UNCHANGED <<vars, pvars, svars>>]_allVars

\* ------------------------------------------------------------------
\* Properties of the parameters
\* ------------------------------------------------------------------
RunsDanglingCmd == pLast'.k /= "none" /\ pLast'.dangling

C8_NegativePositionZero ==
  (fDone /\ fPos < 0) => (fOut = Zero /\ fStaticOut = Zero)

\* C10: a StaticSound processed with a fixed dt > 0 eventually is Stopped and
\* never leaves Stopped; a back-end instance in state Stopped is removed from
\* the instances map at most one process() cycle after it stopped.
StoppedInstancesReclaimed ==
  \A j \in 1..Len(instances) :
    instances[j].val.state = "Stopped" => cycle - instances[j].val.stoppedAt <= 1

C10_StopsAndIsReclaimed ==
  /\ driver = "sound" => <>SFinished
  /\ [][SFinished => SFinished']_allVars
  /\ []StoppedInstancesReclaimed

C10_Witness == driver = "sound" /\ SFinished /\ ssLen > 0

====
